---- MODULE Spec2Model ----
(***************************************************************************)
(* find_slots.py: find_common_slots, the search for common free slots.     *)
(*                                                                         *)
(* Time is an integer number of time units since midnight of start_date.   *)
(* Day d of the search covers [d * DayLen, (d+1) * DayLen).  The free/busy *)
(* service is the environment: each query is answered by an HttpError or   *)
(* by one calendar per email, each calendar carrying either an error or a  *)
(* list of busy blocks (start < end) lying anywhere within the queried     *)
(* calendar day, in any order, overlapping or not.                         *)
(***************************************************************************)
EXTENDS Integers, Sequences, FiniteSets

\* ---------------------------------------------------------------- bounds
\* Number of days scanned (DAYS_TO_SEARCH is 21 in the source).
DAYS_TO_SEARCH == 3
\* Time units per calendar day.
DayLen == 4
\* Largest number of busy blocks in one free/busy response (all calendars).
MaxBusy == 2

\* ------------------------------------------------------ program constants
\* The literal 3 of "len(found_slots) >= 3" and of "found_slots[:3]".
MAX_SLOTS == 3

\* ----------------------------------------------------------------- inputs
\* email_list: two attendees.
email_list == <<"a", "b">>
\* duration_min values of a search request (positive), and every integer
\* main can pass (int(duration_input) is not range-checked).
Durations == {1, 2}
MainDurations == {-1, 0, 1}
\* weekday() of start_date: Thursday or Saturday.
StartWeekdays == {3, 5}
\* working_days as get_working_hours returns it: Mon-Fri (the default),
\* no day at all, every day of the week.
WorkingDaysChoices == {{0, 1, 2, 3, 4}, {}, {0, 1, 2, 3, 4, 5, 6}}
\* <<working_start, working_end>> as offsets from midnight, start < end.
WorkingHours == {<<0, 2>>, <<1, 2>>, <<0, 3>>}
\* The working hours of a run of main that found none configured.
DefaultHours == {<<0, 2>>}

VARIABLES
    duration_min,      \* input
    start_weekday,     \* input: parse(start_date).weekday()
    working_start,     \* input
    working_end,       \* input
    working_days,      \* input
    pc,                \* "for_day" | "for_gap" | "while_slot" | "done"
    day_offset,        \* loop variable of "for day_offset in range(...)"
    found_slots,       \* the ResultSet under construction
    merged_busy,       \* merged busy timeline of the current day
    free_gaps,         \* free gaps of the current day
    gap_idx,           \* position of "for gap in free_gaps" (1-based)
    slot_start,        \* loop variable of the while loop
    result,            \* the value find_common_slots returns
    queries,           \* history: day offsets for which a query was issued
    produced_on,       \* history: produced_on[i] is the day of found_slots[i]
    offered,           \* history: every slot the scanned days offer, in order
    failed,            \* history: a query failed or a calendar carried errors
    busy_reported      \* history: the busy blocks reported for the current day

vars == <<duration_min, start_weekday, working_start, working_end, working_days,
          pc, day_offset, found_slots, merged_busy,
          free_gaps, gap_idx, slot_start, result, queries, produced_on, offered,
          failed, busy_reported>>

inputs == <<duration_min, start_weekday, working_start, working_end, working_days>>

\* ---------------------------------------------------------------- helpers
Max(a, b) == IF a >= b THEN a ELSE b

Last(s) == s[Len(s)]

Range(s) == {s[i] : i \in DOMAIN s}

\* s[:n]
FirstN(s, n) == SubSeq(s, 1, IF Len(s) < n THEN Len(s) ELSE n)

Interval(s, e) == [start |-> s, end |-> e]

\* current_date + timedelta(days=d), as the instant of its midnight
DayStart(d) == d * DayLen

\* search_day.weekday()
Weekday(d) == (start_weekday + d) % 7

\* search_day.replace(hour=working_start.hour, ...)
time_min_local(d) == DayStart(d) + working_start

\* search_day.replace(hour=working_end.hour, ...)
time_max_local(d) == DayStart(d) + working_end

\* ------------------------------------------------ the free/busy service
\* Busy blocks the service can report for day d: start < end, within the day.
BusyBlocks(d) ==
    {b \in [start : DayStart(d)..(DayStart(d) + DayLen),
            end : DayStart(d)..(DayStart(d) + DayLen)] : b.start < b.end}

\* Lists of at most n busy blocks, in any order.
BusyLists(d, n) == UNION {[1..k -> BusyBlocks(d)] : k \in 0..n}

\* calendars.get(email): 'errors' present or not, and the 'busy' list.
Calendar(err, busy) == [errors |-> err, busy |-> busy]

\* A response body: the calendars in the order of email_list.  The busy
\* blocks b are dealt to the two calendars at position k; a calendar in errs
\* carries errors instead.
Response(b, k, errs) ==
    [calendars |->
        << Calendar(1 \in errs, IF 1 \in errs THEN <<>> ELSE SubSeq(b, 1, k)),
           Calendar(2 \in errs, IF 2 \in errs THEN <<>> ELSE SubSeq(b, k + 1, Len(b))) >>]

\* The answers without HttpError the service can give for day d: every
\* calendar readable, or some calendars carrying errors.
ReadableResponses(d) ==
    UNION {{Response(b, k, {}) : k \in 0..Len(b)} : b \in BusyLists(d, MaxBusy)}

ErrorResponses(d) ==
    UNION {{Response(b, k, errs) : k \in 0..Len(b),
                                   errs \in (SUBSET DOMAIN email_list) \ {{}}}
           : b \in BusyLists(d, 1)}

\* "if calendar_data.get('errors')" is true for some email of email_list
HasCalendarError(resp) ==
    \E i \in 1..Len(resp.calendars) : resp.calendars[i].errors

\* ------------------------------------------- merging (lines 170 to 191)
\* all_busy_times after the loop over email_list: the calendars' busy lists
\* appended in the order of email_list.
RECURSIVE AllBusyTimes(_)
AllBusyTimes(cals) ==
    IF cals = <<>> THEN <<>>
    ELSE AllBusyTimes(SubSeq(cals, 1, Len(cals) - 1)) \o Last(cals).busy

\* list.sort(key=start) is stable: x goes after every element whose start is
\* less than or equal to its own.
RECURSIVE InsertByStart(_, _)
InsertByStart(x, s) ==
    IF s = <<>> THEN <<x>>
    ELSE IF Last(s).start <= x.start THEN Append(s, x)
    ELSE Append(InsertByStart(x, SubSeq(s, 1, Len(s) - 1)), Last(s))

RECURSIVE SortByStart(_)
SortByStart(s) ==
    IF s = <<>> THEN <<>>
    ELSE InsertByStart(Last(s), SortByStart(SubSeq(s, 1, Len(s) - 1)))

\* Variant: a block that only touches the last merged interval is joined to it.
StartsNewBlockStrict(block, last) == block.start > last.end

\* "busy_block['start'] >= merged_busy[-1]['end']": the block opens a new
\* merged interval.
StartsNewBlock(block, last) == block.start >= last.end

\* The loop "for busy_block in all_busy_times" over the sorted list.  (The
\* source appends the block's own dict and later extends its 'end' in place;
\* all_busy_times is not read again, so only merged_busy is kept.)
RECURSIVE MergeFrom(_, _)
MergeFrom(merged, rest) ==
    IF rest = <<>> THEN merged
    ELSE LET block == Head(rest) IN
         IF merged = <<>> \/ StartsNewBlock(block, Last(merged))
         THEN MergeFrom(Append(merged, block), Tail(rest))
         ELSE MergeFrom([merged EXCEPT ![Len(merged)].end = Max(@, block.end)],
                        Tail(rest))

MergeBusy(all_busy_times) == MergeFrom(<<>>, SortByStart(all_busy_times))

\* What lines 170 to 191 make of a readable response: the blocks reported and
\* the merged timeline.
Collected(resp) ==
    LET all_busy_times == AllBusyTimes(resp.calendars) IN
    [reported |-> Range(all_busy_times), merged |-> MergeBusy(all_busy_times)]

\* Collected over every readable response of each day of the horizon.
DayOutcomes ==
    [d \in 0..(DAYS_TO_SEARCH - 1) |-> {Collected(resp) : resp \in ReadableResponses(d)}]

\* ---------------------------------------- gap derivation (lines 193 to 202)
\* The loop "for busy_block in merged_busy": the gaps so far and the cursor
\* current_free_start.
RECURSIVE GapsFrom(_, _, _)
GapsFrom(gaps, current_free_start, rest) ==
    IF rest = <<>> THEN [gaps |-> gaps, cursor |-> current_free_start]
    ELSE LET block == Head(rest) IN
         GapsFrom(IF block.start > current_free_start
                  THEN Append(gaps, Interval(current_free_start, block.start))
                  ELSE gaps,
                  Max(current_free_start, block.end),
                  Tail(rest))

FreeGaps(merged, tmin, tmax) ==
    LET walk == GapsFrom(<<>>, tmin, merged) IN
    IF walk.cursor < tmax
    THEN Append(walk.gaps, Interval(walk.cursor, tmax))
    ELSE walk.gaps

\* ------------------------------------- slot extraction (lines 204 to 217)
\* Variant: a slot is taken whenever it starts inside the gap.
FitsInGapLoose(s, d, gap) == s < gap.end

\* "while slot_start + duration <= gap['end']"
FitsInGap(s, d, gap) == s + d <= gap.end

\* Variant: consecutive slots are set one time unit apart.
NextSlotStartSpaced(slot_end) == slot_end + 1

\* "slot_start = slot_end"
NextSlotStart(slot_end) == slot_end

\* Variant: the day loop has no test of the cap.
DayLoopNeverDone(fs) == FALSE

\* "if len(found_slots) >= 3" of line 132
DayLoopDone(fs) == Len(fs) >= MAX_SLOTS

\* "if len(found_slots) >= 3" of line 206
GapLoopDone(fs) == Len(fs) >= MAX_SLOTS

\* Variant: the while loop has no test of the cap.
SlotLoopNeverDone(fs) == FALSE

\* "if len(found_slots) >= 3" of line 211
SlotLoopDone(fs) == Len(fs) >= MAX_SLOTS

\* Variant: no weekday is skipped.
AnyDayIsWorkingDay(d) == TRUE

\* "search_day.weekday() not in working_days" is false
IsWorkingDay(d) == Weekday(d) \in working_days

\* Variant: the error paths return what was found so far.
ErrorReturnPartial(fs) == FirstN(fs, MAX_SLOTS)

\* "return []" of the two error paths
ErrorReturn(fs) == <<>>

\* "return found_slots[:3]"
NormalReturn(fs) == FirstN(fs, MAX_SLOTS)

\* What the scanned day offers: in each gap, in order, the back-to-back slots
\* of length d from the gap's start.
SlotsInGap(gap, d) ==
    IF d <= 0 THEN <<>>
    ELSE [i \in 1..((gap.end - gap.start) \div d) |->
            Interval(gap.start + (i - 1) * d, gap.start + i * d)]

RECURSIVE SlotsInGaps(_, _)
SlotsInGaps(gaps, d) ==
    IF gaps = <<>> THEN <<>>
    ELSE SlotsInGap(Head(gaps), d) \o SlotsInGaps(Tail(gaps), d)

\* ------------------------------------------------------------ the search
InitWith(durations, hours) ==
    /\ duration_min \in durations
    /\ start_weekday \in StartWeekdays
    /\ working_days \in WorkingDaysChoices
    /\ \E wh \in hours : working_start = wh[1] /\ working_end = wh[2]
    /\ pc = "for_day"
    /\ day_offset = 0
    /\ found_slots = <<>>
    /\ merged_busy = <<>>
    /\ free_gaps = <<>>
    /\ gap_idx = 0
    /\ slot_start = 0
    /\ result = <<>>
    /\ queries = <<>>
    /\ produced_on = <<>>
    /\ offered = <<>>
    /\ failed = FALSE
    /\ busy_reported = {}

\* A search request: positive duration.
Init == InitWith(Durations, WorkingHours)

\* Any duration main passes on, under the default working hours.
InitMain == InitWith(MainDurations, DefaultHours)

\* The locals of one day's processing are dead once the day is left: they are
\* put back to their initial values.
DayLocalsCleared ==
    /\ busy_reported' = {}
    /\ merged_busy' = <<>>
    /\ free_gaps' = <<>>
    /\ gap_idx' = 0
    /\ slot_start' = 0

Return(value) ==
    /\ pc' = "done"
    /\ result' = value
    /\ DayLocalsCleared

\* range(DAYS_TO_SEARCH) is exhausted: line 217.
HorizonExhausted ==
    /\ pc = "for_day"
    /\ day_offset >= DAYS_TO_SEARCH
    /\ Return(NormalReturn(found_slots))
    /\ UNCHANGED <<inputs, day_offset, found_slots, queries, produced_on, offered, failed>>

\* Lines 132 and 133, then 217.
BreakDayLoop ==
    /\ pc = "for_day"
    /\ day_offset < DAYS_TO_SEARCH
    /\ DayLoopDone(found_slots)
    /\ Return(NormalReturn(found_slots))
    /\ UNCHANGED <<inputs, day_offset, found_slots, queries, produced_on, offered, failed>>

\* Lines 139 to 141.
SkipDay ==
    /\ pc = "for_day"
    /\ day_offset < DAYS_TO_SEARCH
    /\ ~DayLoopDone(found_slots)
    /\ ~IsWorkingDay(day_offset)
    /\ day_offset' = day_offset + 1
    /\ UNCHANGED <<inputs, pc, found_slots, busy_reported, merged_busy, free_gaps,
                   gap_idx, slot_start, result, queries, produced_on, offered, failed>>

\* The guard of the three outcomes of the query of lines 164 to 165.
AtQuery ==
    /\ pc = "for_day"
    /\ day_offset < DAYS_TO_SEARCH
    /\ ~DayLoopDone(found_slots)
    /\ IsWorkingDay(day_offset)

\* Lines 166 to 168.
QueryHttpError ==
    /\ AtQuery
    /\ queries' = Append(queries, day_offset)
    /\ failed' = TRUE
    /\ Return(ErrorReturn(found_slots))
    /\ UNCHANGED <<inputs, day_offset, found_slots, produced_on, offered>>

\* Lines 171 to 176 with an email whose calendar carries errors.
QueryCalendarError ==
    /\ AtQuery
    /\ \E resp \in ErrorResponses(day_offset) : HasCalendarError(resp)
    /\ queries' = Append(queries, day_offset)
    /\ failed' = TRUE
    /\ Return(ErrorReturn(found_slots))
    /\ UNCHANGED <<inputs, day_offset, found_slots, produced_on, offered>>

\* Lines 164 to 202 with every calendar readable: the busy blocks are
\* collected, sorted and merged, and the free gaps derived.
QueryBusy ==
    /\ AtQuery
    /\ \E outcome \in DayOutcomes[day_offset] :
          /\ busy_reported' = outcome.reported
          /\ merged_busy' = outcome.merged
    /\ free_gaps' = FreeGaps(merged_busy', time_min_local(day_offset),
                             time_max_local(day_offset))
    /\ offered' = offered \o SlotsInGaps(free_gaps', duration_min)
    /\ queries' = Append(queries, day_offset)
    /\ gap_idx' = 1
    /\ pc' = "for_gap"
    /\ UNCHANGED <<inputs, day_offset, found_slots, slot_start, result, produced_on,
                   failed>>

\* The day's gap loop is over: on to the next day_offset.
NextDay ==
    /\ pc' = "for_day"
    /\ day_offset' = day_offset + 1
    /\ DayLocalsCleared
    /\ UNCHANGED <<inputs, found_slots, result, queries, produced_on, offered, failed>>

\* "for gap in free_gaps" has no gap left.
GapLoopExit ==
    /\ pc = "for_gap"
    /\ gap_idx > Len(free_gaps)
    /\ NextDay

\* Lines 206 and 207.
GapLoopBreak ==
    /\ pc = "for_gap"
    /\ gap_idx <= Len(free_gaps)
    /\ GapLoopDone(found_slots)
    /\ NextDay

\* Line 209.
GapEnter ==
    /\ pc = "for_gap"
    /\ gap_idx <= Len(free_gaps)
    /\ ~GapLoopDone(found_slots)
    /\ slot_start' = free_gaps[gap_idx].start
    /\ pc' = "while_slot"
    /\ UNCHANGED <<inputs, day_offset, found_slots, busy_reported, merged_busy,
                   free_gaps, gap_idx, result, queries, produced_on, offered, failed>>

\* The while loop is left for the next gap.
NextGap ==
    /\ pc' = "for_gap"
    /\ gap_idx' = gap_idx + 1
    /\ slot_start' = 0
    /\ UNCHANGED <<inputs, day_offset, found_slots, busy_reported, merged_busy,
                   free_gaps, result, queries, produced_on, offered, failed>>

\* Line 210 is false.
SlotLoopExit ==
    /\ pc = "while_slot"
    /\ ~FitsInGap(slot_start, duration_min, free_gaps[gap_idx])
    /\ NextGap

\* Lines 211 and 212.
SlotLoopBreak ==
    /\ pc = "while_slot"
    /\ FitsInGap(slot_start, duration_min, free_gaps[gap_idx])
    /\ SlotLoopDone(found_slots)
    /\ NextGap

\* Lines 213 to 215.
SlotTake ==
    /\ pc = "while_slot"
    /\ FitsInGap(slot_start, duration_min, free_gaps[gap_idx])
    /\ ~SlotLoopDone(found_slots)
    /\ LET slot_end == slot_start + duration_min IN
          /\ found_slots' = Append(found_slots, Interval(slot_start, slot_end))
          /\ slot_start' = NextSlotStart(slot_end)
    /\ produced_on' = Append(produced_on, day_offset)
    /\ UNCHANGED <<inputs, pc, day_offset, busy_reported, merged_busy, free_gaps,
                   gap_idx, result, queries, offered, failed>>

Next ==
    \/ HorizonExhausted
    \/ BreakDayLoop
    \/ SkipDay
    \/ QueryHttpError
    \/ QueryCalendarError
    \/ QueryBusy
    \/ GapLoopExit
    \/ GapLoopBreak
    \/ GapEnter
    \/ SlotLoopExit
    \/ SlotLoopBreak
    \/ SlotTake

Spec == Init /\ [][Next]_vars

\* find_common_slots as main calls it: it is sequential code that never
\* blocks, so a step that can be taken is taken.
MainSpec == InitMain /\ [][Next]_vars /\ WF_vars(Next)

\* ------------------------------------------------------------ properties
InDay == pc \in {"for_gap", "while_slot"}

Overlaps(a, b) == a.start < b.end /\ b.start < a.end

Within(a, b) == b.start <= a.start /\ a.end <= b.end

\* The unit cell [t, t+1) lies in interval a.
Covers(a, t) == a.start <= t /\ t + 1 <= a.end

\* The cells of the calendar day being processed.
DayCells == DayStart(day_offset)..(DayStart(day_offset) + DayLen - 1)

\* C1: with a positive duration, every slot of found_slots is exactly
\* duration_min long, and every slot of the day being processed lies inside
\* one of the day's free gaps and overlaps no busy block reported for the day
\* by any calendar.
SlotValidity ==
    \A i \in DOMAIN found_slots :
        /\ found_slots[i].end - found_slots[i].start = duration_min
        /\ (InDay /\ produced_on[i] = day_offset) =>
              /\ \E g \in DOMAIN free_gaps : Within(found_slots[i], free_gaps[g])
              /\ \A b \in busy_reported : ~Overlaps(found_slots[i], b)

\* A slot taken right up to the start of a reported busy block.
SlotValidityWitness ==
    /\ InDay
    /\ \E i \in DOMAIN found_slots :
          /\ produced_on[i] = day_offset
          /\ \E b \in busy_reported : b.start = found_slots[i].end

\* C2: every slot of found_slots lies within the working window
\* [time_min_local, time_max_local) of the day it was produced on.
SlotsWithinWindow ==
    \A i \in DOMAIN found_slots :
        /\ time_min_local(produced_on[i]) <= found_slots[i].start
        /\ found_slots[i].end <= time_max_local(produced_on[i])

\* C3: found_slots, and the value returned, never hold more than 3 slots.
CapRespected ==
    /\ Len(found_slots) <= MAX_SLOTS
    /\ Len(result) <= MAX_SLOTS

\* The cap is reached inside a gap that has room for another slot, with
\* days of the horizon still to come.
CapRespectedWitness ==
    /\ pc = "while_slot"
    /\ Len(found_slots) = MAX_SLOTS
    /\ slot_start + duration_min <= free_gaps[gap_idx].end
    /\ day_offset + 1 < DAYS_TO_SEARCH

\* C4: once a query has failed or a calendar has carried errors, the search
\* has returned and the value returned is the empty list.
AbortOnError == failed => (pc = "done" /\ result = <<>>)

\* An error on a day after slots had been found.
AbortOnErrorWitness == failed /\ pc = "done" /\ found_slots # <<>>

\* C5: the free gaps and the merged busy intervals partition the working
\* window: every cell of the window lies in exactly one gap or merged busy
\* interval, no cell lies in both, and no gap holds a cell outside the window.
GapBusyPartition ==
    InDay =>
      \A t \in DayCells :
        LET gaps == {g \in DOMAIN free_gaps : Covers(free_gaps[g], t)}
            busy == {m \in DOMAIN merged_busy : Covers(merged_busy[m], t)}
            in_window == /\ time_min_local(day_offset) <= t
                         /\ t + 1 <= time_max_local(day_offset)
        IN  /\ in_window => Cardinality(gaps) + Cardinality(busy) = 1
            /\ gaps # {} => busy = {}
            /\ ~in_window => gaps = {}

StrictlyAscending(slots) ==
    \A i \in 1..(Len(slots) - 1) : slots[i].start < slots[i + 1].start

\* The days of the horizon whose weekday is in working_days.
EligibleDays == {d \in 0..(DAYS_TO_SEARCH - 1) : Weekday(d) \in working_days}

\* C7: a search that ends without error returns the first min(3, N) of the
\* N slots offered by the eligible days in date order, gap by gap, back to
\* back from each gap's start; the starts are strictly ascending, and fewer
\* than 3 slots are returned only when every eligible day of the horizon was
\* scanned and offered fewer than 3 in all.
FirstFitResult ==
    (pc = "done" /\ ~failed) =>
        /\ result = FirstN(offered, MAX_SLOTS)
        /\ StrictlyAscending(result)
        /\ Len(result) < MAX_SLOTS =>
              /\ Len(offered) = Len(result)
              /\ EligibleDays = Range(queries)

\* Three slots returned from two days, the second day offering more.
FirstFitResultWitness ==
    /\ pc = "done"
    /\ ~failed
    /\ Len(result) = MAX_SLOTS
    /\ Len(offered) > MAX_SLOTS
    /\ produced_on[1] # produced_on[MAX_SLOTS]

\* C8: day_offset never decreases, queries are issued for strictly increasing
\* days, and once found_slots holds 3 slots no step adds a slot or issues a
\* query.
StopAtCap ==
    [][ /\ day_offset' >= day_offset
        /\ queries' # queries =>
              /\ queries' = Append(queries, day_offset)
              /\ \A i \in DOMAIN queries : queries[i] < day_offset
        /\ Len(found_slots) >= MAX_SLOTS =>
              /\ found_slots' = found_slots
              /\ queries' = queries ]_vars

\* The search has returned 3 slots and never queried a later eligible day.
StopAtCapWitness ==
    /\ pc = "done"
    /\ Len(result) = MAX_SLOTS
    /\ \E d \in EligibleDays : d >= day_offset /\ d \notin Range(queries)

\* C9: a step taken at a day whose weekday is not in working_days issues no
\* query and leaves found_slots as it is; queries are issued only for days
\* whose weekday is in working_days; with working_days empty no query is
\* ever issued and found_slots and the value returned stay empty.
SkipNonWorkingDays ==
    [][ /\ (pc = "for_day" /\ day_offset < DAYS_TO_SEARCH
                           /\ Weekday(day_offset) \notin working_days) =>
              /\ queries' = queries
              /\ found_slots' = found_slots
        /\ queries' # queries => Weekday(day_offset) \in working_days
        /\ working_days = {} =>
              /\ queries' = <<>>
              /\ found_slots' = <<>>
              /\ result' = <<>> ]_vars

\* A finished search that skipped a day between two days it queried.
SkipNonWorkingDaysWitness ==
    /\ pc = "done"
    /\ found_slots # <<>>
    /\ \E d \in 0..(DAYS_TO_SEARCH - 1) :
          /\ d \notin Range(queries)
          /\ \E i \in DOMAIN queries : queries[i] > d

\* Appends the while loop can still make.
SlotsLeft == MAX_SLOTS - Len(found_slots)

\* Gaps the gap loop has not finished.
GapsLeft == Len(free_gaps) - gap_idx + 1

\* Steps one day can take at most, apart from appends.
DaySteps == 2 * (MaxBusy + 1) + 3

\* A measure of the work left.
Rank ==
    IF pc = "done" THEN 0
    ELSE (DAYS_TO_SEARCH - day_offset) * DaySteps + SlotsLeft
         + (CASE pc = "for_day" -> DaySteps - 1
              [] pc = "for_gap" -> 2 * GapsLeft + 1
              [] pc = "while_slot" -> 2 * GapsLeft)

\* C10: for every duration, zero and negative included, the search returns.
\* Every step strictly decreases Rank, whose parts never become negative: the
\* while loop makes at most SlotsLeft appends, the gap loop visits each gap
\* once, and day_offset never passes DAYS_TO_SEARCH; and the search, which
\* keeps taking steps, reaches its return.
Terminates ==
    /\ [][ /\ Rank' < Rank
           /\ SlotsLeft' >= 0
           /\ GapsLeft' >= 0
           /\ GapsLeft' <= MaxBusy + 1
           /\ day_offset' <= DAYS_TO_SEARCH ]_vars
    /\ <>(pc = "done")

\* A search with a zero or negative duration that has returned 3 slots.
TerminatesWitness ==
    /\ pc = "done"
    /\ duration_min <= 0
    /\ Len(result) = MAX_SLOTS

====
